---- MODULE Spec2Model ----
(***************************************************************************)
(* Model of the 13-Moon calendar Kin calculator.                           *)
(*                                                                         *)
(* Two implementations of calculateKin exist in the repository:            *)
(*   src/unnamed/part_000  (CommonJS module, throws on an unknown year)    *)
(*   src/unnamed/part_001  (React cover component, returns a placeholder)  *)
(* src/RedRoom.jsx holds getKinMessage, getKinData and the RedRoom         *)
(* component (spin, stop, history, review).                                *)
(*                                                                         *)
(* JavaScript values are modelled as tagged records (Num, Str, Bool, Null, *)
(* Undefined) so that null, undefined and numbers stay distinguishable.    *)
(* The parser accepts only ASCII in strings, so the Chinese seal and tone  *)
(* names are written in pinyin, syllable by syllable                       *)
(* (e.g. "YueLiangDe" for 月亮的, "HuangXingXing" for 黃星星).             *)
(***************************************************************************)
EXTENDS Integers, Sequences, FiniteSets, TLC

VARIABLES
    monthConstants,   \* part_000: month offset table
    yearConstants,    \* part_000: year offset table
    sealNames,        \* part_000: the 20 seal names (0-based array)
    toneNames,        \* part_000: the 13 tone names (0-based array)
    MONTH_CONSTANTS,  \* part_001: month offset table
    YEAR_CONSTANTS,   \* part_001: year offset table
    SEAL_NAMES,       \* part_001: the 20 seal names
    TONE_NAMES,       \* part_001: the 13 tone names
    year, month, day, \* arguments of the call
    impl,             \* which calculateKin ran: "none", "part_000", "part_001"
    pc,               \* "ready", "returned"; "while1", "while2", "derive" inside the loops
    kin,              \* the local variable kin of calculateKin
    rawSum,           \* value of kin when the normalization loops are entered
    adjusted,         \* TRUE iff the statement  kin += 1  was executed
    outcome,          \* what the call gave its caller: a returned object or a thrown Error
    console,          \* lines the call wrote to the console
    prev,             \* an earlier call kept for comparison (or NoPrev)
    kinDataKeys,      \* RedRoom.jsx: the keys of the table KIN_DATA imported from ./kinData
    fnArg,            \* argument given to getKinMessage / getKinData
    fnResult,         \* what getKinMessage / getKinData gave its caller
    isSpinning,       \* RedRoom state
    currentKinNumber, \* RedRoom state: the number on display
    currentKinData,   \* RedRoom state
    history,          \* RedRoom state: the records, first is newest
    isDrawerOpen,     \* RedRoom state
    reviewMode,       \* RedRoom state: the record under review or null
    intervalRef,      \* RedRoom ref: id of the last interval created, 0 for null
    timers,           \* ids of the intervals armed in the browser
    now,              \* the clock Date.now() reads
    mounted           \* FALSE once the component was unmounted

tables == <<monthConstants, yearConstants, sealNames, toneNames,
            MONTH_CONSTANTS, YEAR_CONSTANTS, SEAL_NAMES, TONE_NAMES>>
vars == <<monthConstants, yearConstants, sealNames, toneNames,
          MONTH_CONSTANTS, YEAR_CONSTANTS, SEAL_NAMES, TONE_NAMES,
          year, month, day, impl, pc, kin, rawSum, adjusted, outcome, console, prev,
          kinDataKeys, fnArg, fnResult,
          isSpinning, currentKinNumber, currentKinData, history, isDrawerOpen,
          reviewMode, intervalRef, timers, now, mounted>>
fnvars == <<fnArg, fnResult>>
roomvars == <<isSpinning, currentKinNumber, currentKinData, history, isDrawerOpen,
              reviewMode, intervalRef, timers, now, mounted>>

-----------------------------------------------------------------------------
(* Bounds of the model *)

\* how many years before the first and after the last table year are tried
YearMargin == 4
\* the raw sums tried on the loops run from -MaxBelow to MaxRaw
MaxBelow == 600
MaxRaw == 900
\* getKinData and getKinMessage are tried on the integers from
\* 1 - FnMargin to 260 + FnMargin
FnMargin == 15
\* the clock of the RedRoom runs from 0 to MaxNow
MaxNow == 2

\* years tried as arguments: the table years 2014..2035 with a margin on
\* each side, plus far-away years
Years == ((2014 - YearMargin)..(2035 + YearMargin)) \cup {1899, 1900, 2000, 2100}
\* contract of calculateKin: month in [1,12], day in [1,31]
Months == 1..12
Days == 1..31

-----------------------------------------------------------------------------
(* JavaScript values *)

Null == [t |-> "null"]
Undefined == [t |-> "undefined"]
Num(n) == [t |-> "number", v |-> n]
Str(s) == [t |-> "string", v |-> s]
Bool(b) == [t |-> "boolean", v |-> b]

\* obj[key] on an object literal with integer keys: undefined when the key is absent
Lookup(tab, k) == IF k \in DOMAIN tab THEN Num(tab[k]) ELSE Undefined

\* arr[i] on a 0-based array: undefined when the index is out of range
ArrayGet(arr, i) == IF i \in 0..(Len(arr) - 1) THEN Str(arr[i + 1]) ELSE Undefined

\* obj.field on a returned object: undefined when the object has no such property
Get(obj, f) == IF f \in DOMAIN obj THEN obj[f] ELSE Undefined

\* !v  for the values a table lookup can give (undefined and 0 are falsy)
Not(v) == v = Undefined \/ v = Null \/ v = Num(0)

\* a % b  of JavaScript: the remainder takes the sign of the dividend
JsRem(a, b) == IF a >= 0 THEN a % b ELSE 0 - ((0 - a) % b)

\* `${v}` inside a template literal
Template(v) ==
    CASE v.t = "string" -> v.v
      [] v.t = "number" -> ToString(v.v)
      [] v.t = "undefined" -> "undefined"
      [] v.t = "null" -> "null"
      [] OTHER -> ToString(v.v)

\* String(n).padStart(2, '0') for a non-negative integer n
PadStart2(n) == IF n < 10 THEN "0" \o ToString(n) ELSE ToString(n)

-----------------------------------------------------------------------------
(* The constant tables, as the source files initialise them *)

\* variant: the offset of March entered as 60
monthConstants_init_march60 ==
    [m \in 1..12 |->
        CASE m = 1 -> 0   [] m = 2 -> 31   [] m = 3 -> 60   [] m = 4 -> 90
          [] m = 5 -> 120 [] m = 6 -> 151  [] m = 7 -> 181  [] m = 8 -> 212
          [] m = 9 -> 243 [] m = 10 -> 13  [] m = 11 -> 44  [] m = 12 -> 74]

monthConstants_init ==
    [m \in 1..12 |->
        CASE m = 1 -> 0   [] m = 2 -> 31   [] m = 3 -> 59   [] m = 4 -> 90
          [] m = 5 -> 120 [] m = 6 -> 151  [] m = 7 -> 181  [] m = 8 -> 212
          [] m = 9 -> 243 [] m = 10 -> 13  [] m = 11 -> 44  [] m = 12 -> 74]

yearConstants_init ==
    [y \in 2014..2030 |->
        CASE y = 2014 -> 62   [] y = 2015 -> 167  [] y = 2016 -> 12
          [] y = 2017 -> 117  [] y = 2018 -> 222  [] y = 2019 -> 67
          [] y = 2020 -> 172  [] y = 2021 -> 17   [] y = 2022 -> 122
          [] y = 2023 -> 227  [] y = 2024 -> 72   [] y = 2025 -> 177
          [] y = 2026 -> 22   [] y = 2027 -> 127  [] y = 2028 -> 232
          [] y = 2029 -> 77   [] y = 2030 -> 182]

sealNames_init ==
    << "HongLong", "BaiFeng", "LanYe", "HuangZhongZi", "HongShe",
       "BaiShiJieQiao", "LanShou", "HuangXingXing", "HongYue", "BaiGou",
       "LanHou", "HuangRen", "HongTianXingZhe", "BaiWuShi", "LanYing",
       "HuangZhanShi", "HongDiQiu", "BaiJing", "LanFengBao", "HuangTaiYang" >>

toneNames_init ==
    << "CiXingDe", "YueLiangDe", "DianLiDe", "ZiWoCunZaiDe", "ChaoPinDe",
       "YunLvDe", "GongZhenDe", "YinHeXingXiDe", "TaiYangDe", "XingXingDe",
       "GuangPuDe", "ShuiJingDe", "YuZhouDe" >>

\* variant: the offset of October entered as 14
MONTH_CONSTANTS_init_oct14 ==
    [m \in 1..12 |->
        CASE m = 1 -> 0   [] m = 2 -> 31   [] m = 3 -> 59   [] m = 4 -> 90
          [] m = 5 -> 120 [] m = 6 -> 151  [] m = 7 -> 181  [] m = 8 -> 212
          [] m = 9 -> 243 [] m = 10 -> 14  [] m = 11 -> 44  [] m = 12 -> 74]

MONTH_CONSTANTS_init ==
    [m \in 1..12 |->
        CASE m = 1 -> 0   [] m = 2 -> 31   [] m = 3 -> 59   [] m = 4 -> 90
          [] m = 5 -> 120 [] m = 6 -> 151  [] m = 7 -> 181  [] m = 8 -> 212
          [] m = 9 -> 243 [] m = 10 -> 13  [] m = 11 -> 44  [] m = 12 -> 74]

\* variant: the constant of 2020 entered as 171
YEAR_CONSTANTS_init_2020 ==
    [y \in 2014..2035 |->
        CASE y = 2014 -> 62   [] y = 2015 -> 167  [] y = 2016 -> 12
          [] y = 2017 -> 117  [] y = 2018 -> 222  [] y = 2019 -> 67
          [] y = 2020 -> 171  [] y = 2021 -> 17   [] y = 2022 -> 122
          [] y = 2023 -> 227  [] y = 2024 -> 72   [] y = 2025 -> 177
          [] y = 2026 -> 22   [] y = 2027 -> 127  [] y = 2028 -> 232
          [] y = 2029 -> 77   [] y = 2030 -> 182  [] y = 2031 -> 27
          [] y = 2032 -> 132  [] y = 2033 -> 237  [] y = 2034 -> 82
          [] y = 2035 -> 187]

YEAR_CONSTANTS_init ==
    [y \in 2014..2035 |->
        CASE y = 2014 -> 62   [] y = 2015 -> 167  [] y = 2016 -> 12
          [] y = 2017 -> 117  [] y = 2018 -> 222  [] y = 2019 -> 67
          [] y = 2020 -> 172  [] y = 2021 -> 17   [] y = 2022 -> 122
          [] y = 2023 -> 227  [] y = 2024 -> 72   [] y = 2025 -> 177
          [] y = 2026 -> 22   [] y = 2027 -> 127  [] y = 2028 -> 232
          [] y = 2029 -> 77   [] y = 2030 -> 182  [] y = 2031 -> 27
          [] y = 2032 -> 132  [] y = 2033 -> 237  [] y = 2034 -> 82
          [] y = 2035 -> 187]

SEAL_NAMES_init ==
    << "HongLong", "BaiFeng", "LanYe", "HuangZhongZi", "HongShe",
       "BaiShiJieQiao", "LanShou", "HuangXingXing", "HongYue", "BaiGou",
       "LanHou", "HuangRen", "HongTianXingZhe", "BaiWuShi", "LanYing",
       "HuangZhanShi", "HongDiQiu", "BaiJing", "LanFengBao", "HuangTaiYang" >>

TONE_NAMES_init ==
    << "CiXingDe", "YueLiangDe", "DianLiDe", "ZiWoCunZaiDe", "ChaoPinDe",
       "YunLvDe", "GongZhenDe", "YinHeXingXiDe", "TaiYangDe", "XingXingDe",
       "GuangPuDe", "ShuiJingDe", "YuZhouDe" >>

-----------------------------------------------------------------------------
(* The pure parts of calculateKin *)

isLeapYear(y) ==
    (JsRem(y, 4) = 0 /\ JsRem(y, 100) # 0) \/ (JsRem(y, 400) = 0)

\* variant: the month compared as a 0-based month number
IsFeb29_zeroBased(m, d) == m = 1 /\ d = 29

\* the test  month === 2 && day === 29  that opens calculateKin
IsFeb29(m, d) == m = 2 /\ d = 29

\* the test  !yearConstants[year]
YearMissing(yc, y) == Not(Lookup(yc, y))

\* kin = yearConstants[year] + monthConstants[month] + day
BaseSum(yc, mc, y, m, d) == yc[y] + mc[m] + d

\* variant: the adjustment starts with February 1
LeapAdjust_fromFeb(y, m, d) == isLeapYear(y) /\ m >= 2

\* the condition under which  kin += 1  runs
LeapAdjust(y, m, d) == isLeapYear(y) /\ (m > 2 \/ (m = 2 /\ d > 28))

\* the loop test  kin > 260
While1Cond(k) == k > 260

\* variant: the second loop only lifts negative values
While2Cond_negative(k) == k < 0

\* the loop test  kin < 1
While2Cond(k) == k < 1

\* while (kin > 260) kin -= 260
RECURSIVE While1(_)
While1(k) == IF While1Cond(k) THEN While1(k - 260) ELSE k

\* while (kin < 1) kin += 260
RECURSIVE While2(_)
While2(k) == IF While2Cond(k) THEN While2(k + 260) ELSE k

\* variant: a plain remainder instead of the two loops
Normalize_rem(k) == k % 260

\* both loops, in the order of the code
Normalize(k) == While2(While1(k))

\* kin as it stands after the loops, for a supported year
KinOf(yc, mc, y, m, d) ==
    Normalize(BaseSum(yc, mc, y, m, d) + (IF LeapAdjust(y, m, d) THEN 1 ELSE 0))

\* variant: the seal cycle counted from kin instead of kin - 1
SealIndex_fromKin(k) == JsRem(k, 20)

\* const sealIndex = ((kin - 1) % 20)
SealIndex(k) == JsRem(k - 1, 20)

\* variant: the tone cycle counted from kin instead of kin - 1
ToneIndex_fromKin(k) == JsRem(k, 13)

\* const toneIndex = ((kin - 1) % 13)
ToneIndex(k) == JsRem(k - 1, 13)

\* variant: the year lookup is made before the February 29 test
Branch_yearFirst(yc, y, m, d) ==
    IF YearMissing(yc, y) THEN "unsupported"
    ELSE IF IsFeb29(m, d) THEN "hunabku"
    ELSE "normal"

\* which of the three exits of calculateKin a call takes: the February 29
\* test comes first, the year lookup second
Branch(yc, y, m, d) ==
    IF IsFeb29(m, d) THEN "hunabku"
    ELSE IF YearMissing(yc, y) THEN "unsupported"
    ELSE "normal"

\* the object returned for February 29 by part_000
HunabKu0 ==
    [kin |-> Null, seal |-> Null, tone |-> Null,
     isHunabKu |-> Bool(TRUE), displayText |-> Str("Hunab Ku")]

\* the object returned for February 29 by part_001
HunabKu1 ==
    [kin |-> Null, seal |-> Null, tone |-> Null,
     isHunabKu |-> Bool(TRUE), displayText |-> Str("Hunab Ku"),
     sealImagePath |-> Str("./images/hunab-ku-1.png")]

\* the Error thrown by part_000 for a year without constant
YearError(y) ==
    [name |-> "Error",
     message |-> "NianFen " \o ToString(y) \o " De ChangShuShangWeiDingYi"]

\* variant: the February 29 object pasted without editing
YearUndefined1_pasted ==
    [kin |-> Null, seal |-> Null, tone |-> Null,
     isHunabKu |-> Bool(TRUE), displayText |-> Str("Hunab Ku"),
     sealImagePath |-> Str("./images/hunab-ku-1.png")]

\* the object returned by part_001 for a year without constant
YearUndefined1 ==
    [kin |-> Null, seal |-> Null, tone |-> Null,
     isHunabKu |-> Bool(FALSE), displayText |-> Str("NianFenShuJuWeiDingYi"),
     sealImagePath |-> Null]

\* the line part_001 writes with console.warn for a year without constant
YearWarning(y) ==
    [level |-> "warn",
     text |-> "NianFen " \o ToString(y)
              \o " De ChangShuShangWeiDingYi, QingGengXin YEAR_CONSTANTS"]

\* the object built at the end of calculateKin in part_000
NormalResult0(seals, tones, k) ==
    LET sealIndex == SealIndex(k)
        seal == ArrayGet(seals, sealIndex)
        toneIndex == ToneIndex(k)
        tone == ArrayGet(tones, toneIndex)
        sealNumber == sealIndex + 1
    IN [kin |-> Num(k), seal |-> seal, tone |-> tone,
        sealNumber |-> Num(sealNumber), isHunabKu |-> Bool(FALSE),
        displayText |-> Str(Template(tone) \o Template(seal))]

\* the object built at the end of calculateKin in part_001
NormalResult1(seals, tones, k) ==
    LET sealIndex == SealIndex(k)
        seal == ArrayGet(seals, sealIndex)
        toneIndex == ToneIndex(k)
        tone == ArrayGet(tones, toneIndex)
        sealNumber == sealIndex + 1
    IN [kin |-> Num(k), seal |-> seal, tone |-> tone,
        sealNumber |-> Num(sealNumber), isHunabKu |-> Bool(FALSE),
        displayText |-> Str(Template(tone) \o Template(seal)),
        sealImagePath |-> Str("./images/" \o PadStart2(sealNumber) \o ".png")]

\* what a caller receives: either a returned value or a thrown error
Returned(obj) == [threw |-> FALSE, value |-> obj]
Thrown(err) == [threw |-> TRUE, error |-> err]
NoOutcome == [threw |-> FALSE, value |-> Undefined]
NoPrev == [impl |-> "none"]

-----------------------------------------------------------------------------
(* The calls *)

\* the statements of calculateKin of part_000, on the arguments held in
\* year, month, day: everything but the tables
Call000Body ==
    /\ pc = "ready"
    /\ impl' = "part_000"
    /\ pc' = "returned"
    /\ console' = << >>
    /\ CASE Branch(yearConstants, year, month, day) = "hunabku" ->
              /\ outcome' = Returned(HunabKu0)
              /\ UNCHANGED <<kin, rawSum, adjusted>>
         [] Branch(yearConstants, year, month, day) = "unsupported" ->
              /\ outcome' = Thrown(YearError(year))
              /\ UNCHANGED <<kin, rawSum, adjusted>>
         [] OTHER ->
              /\ adjusted' = LeapAdjust(year, month, day)
              /\ rawSum' = BaseSum(yearConstants, monthConstants, year, month, day)
                           + (IF LeapAdjust(year, month, day) THEN 1 ELSE 0)
              /\ kin' = KinOf(yearConstants, monthConstants, year, month, day)
              /\ outcome' = Returned(NormalResult0(sealNames, toneNames, kin'))
    /\ UNCHANGED <<year, month, day, prev>>

\* variant of part_000: the computed kin is stored back into the year table
Call000_writesTable ==
    /\ Call000Body
    /\ yearConstants' = IF Branch(yearConstants, year, month, day) = "normal"
                        THEN [yearConstants EXCEPT ![year] = kin']
                        ELSE yearConstants
    /\ UNCHANGED <<monthConstants, sealNames, toneNames,
                   MONTH_CONSTANTS, YEAR_CONSTANTS, SEAL_NAMES, TONE_NAMES>>
    /\ UNCHANGED <<kinDataKeys, fnvars, roomvars>>

\* calculateKin of part_000: it assigns to none of the tables
Call000 ==
    /\ Call000Body
    /\ UNCHANGED tables
    /\ UNCHANGED <<kinDataKeys, fnvars, roomvars>>

\* calculateKin of part_001, on the arguments held in year, month, day
Call001 ==
    /\ pc = "ready"
    /\ impl' = "part_001"
    /\ pc' = "returned"
    /\ CASE Branch(YEAR_CONSTANTS, year, month, day) = "hunabku" ->
              /\ outcome' = Returned(HunabKu1)
              /\ console' = << >>
              /\ UNCHANGED <<kin, rawSum, adjusted>>
         [] Branch(YEAR_CONSTANTS, year, month, day) = "unsupported" ->
              /\ console' = << YearWarning(year) >>
              /\ outcome' = Returned(YearUndefined1)
              /\ UNCHANGED <<kin, rawSum, adjusted>>
         [] OTHER ->
              /\ adjusted' = LeapAdjust(year, month, day)
              /\ rawSum' = BaseSum(YEAR_CONSTANTS, MONTH_CONSTANTS, year, month, day)
                           + (IF LeapAdjust(year, month, day) THEN 1 ELSE 0)
              /\ kin' = KinOf(YEAR_CONSTANTS, MONTH_CONSTANTS, year, month, day)
              /\ outcome' = Returned(NormalResult1(SEAL_NAMES, TONE_NAMES, kin'))
              /\ console' = << >>
    /\ UNCHANGED <<year, month, day, prev>>
    /\ UNCHANGED tables
    /\ UNCHANGED <<kinDataKeys, fnvars, roomvars>>

TablesInit ==
    /\ monthConstants = monthConstants_init
    /\ yearConstants = yearConstants_init
    /\ sealNames = sealNames_init
    /\ toneNames = toneNames_init
    /\ MONTH_CONSTANTS = MONTH_CONSTANTS_init
    /\ YEAR_CONSTANTS = YEAR_CONSTANTS_init
    /\ SEAL_NAMES = SEAL_NAMES_init
    /\ TONE_NAMES = TONE_NAMES_init

-----------------------------------------------------------------------------
(* src/RedRoom.jsx: getKinMessage and getKinData *)

\* the number NaN (kept apart from Num so that comparisons stay defined)
NaN == [t |-> "NaN"]

\* arr[i] on a 0-based array of objects
ArrayAt(arr, i) == IF i \in 0..(Len(arr) - 1) THEN arr[i + 1] ELSE Undefined

\* Number(s) for the strings tried as arguments
StringToNumber(s) ==
    CASE s = "" -> Num(0)
      [] s = "5" -> Num(5)
      [] s = "260" -> Num(260)
      [] s = "300" -> Num(300)
      [] OTHER -> NaN

\* Number(v)
ToNumber(v) ==
    CASE v.t = "number" -> v
      [] v.t = "NaN" -> NaN
      [] v.t = "undefined" -> NaN
      [] v.t = "null" -> Num(0)
      [] v.t = "boolean" -> (IF v.v THEN Num(1) ELSE Num(0))
      [] v.t = "string" -> StringToNumber(v.v)
      [] OTHER -> NaN

\* isNaN(x) for a number x
isNaN(x) == x = NaN

\* variant: the message is returned without the test
Truthy_always(v) == TRUE

\* the condition of  if (message): an object is truthy, undefined is not
Truthy(v) == IF "t" \in DOMAIN v THEN ~(v = Undefined \/ v = Null \/ v = NaN
                                        \/ v = Num(0) \/ v = Str("") \/ v = Bool(FALSE))
             ELSE TRUE

\* the object getKinMessage returns when it has no message
Placeholder ==
    [synchronicMessage |-> Str("NengLiangDuQuZhong..."),
     highFrequency |-> Str("NengLiangDuQuZhong..."),
     lowFrequency |-> Str("NengLiangDuQuZhong..."),
     alignment |-> Str("NengLiangDuQuZhong...")]

\* an entry of KIN_DATA, with the four fields getKinMessage documents
KinEntry(k) ==
    [synchronicMessage |-> Str("synchronic " \o ToString(k)),
     highFrequency |-> Str("high " \o ToString(k)),
     lowFrequency |-> Str("low " \o ToString(k)),
     alignment |-> Str("alignment " \o ToString(k))]

\* the keys of a KIN_DATA with an entry for every kin, and of one with
\* entries for the first 13 only
KinKeys_full == 1..260
KinKeys_partial == 1..13

\* the table KIN_DATA
KIN_DATA == [k \in kinDataKeys |-> KinEntry(k)]

\* KIN_DATA[kinNum]
KinDataAt(n) == IF n \in kinDataKeys THEN KinEntry(n) ELSE Undefined

\* isNaN(kinNum) || kinNum < 1 || kinNum > 260
OutOfRange(kinNum) == isNaN(kinNum) \/ kinNum.v < 1 \/ kinNum.v > 260

getKinMessage(kinNumber) ==
    LET kinNum == ToNumber(kinNumber)
    IN IF OutOfRange(kinNum)
       THEN Placeholder
       ELSE LET message == KinDataAt(kinNum.v)
            IN IF Truthy(message) THEN message ELSE Placeholder

RR_TONE_NAMES ==
    << [id |-> 1, name |-> "CiXing"], [id |-> 2, name |-> "YueLiang"],
       [id |-> 3, name |-> "DianLi"], [id |-> 4, name |-> "ZiWoCunZai"],
       [id |-> 5, name |-> "ChaoPin"], [id |-> 6, name |-> "YunLv"],
       [id |-> 7, name |-> "GongMing"], [id |-> 8, name |-> "YinHe"],
       [id |-> 9, name |-> "TaiYang"], [id |-> 10, name |-> "XingXing"],
       [id |-> 11, name |-> "GuangPu"], [id |-> 12, name |-> "ShuiJing"],
       [id |-> 13, name |-> "YuZhou"] >>

GlyphColor(i) ==
    CASE i % 4 = 1 -> "red" [] i % 4 = 2 -> "white" [] i % 4 = 3 -> "blue" [] OTHER -> "yellow"

GlyphName ==
    << "HongLong", "BaiFeng", "LanYe", "HuangZhongZi", "HongShe",
       "BaiShiJieQiao", "LanShou", "HuangXingXing", "HongYue", "BaiGou",
       "LanHou", "HuangRen", "HongTianXingZhe", "BaiWuShi", "LanYing",
       "HuangZhanShi", "HongDiQiu", "BaiJing", "LanFengBao", "HuangTaiYang" >>

\* the 20 glyphs: id, name, image path and colour
GLYPH_NAMES ==
    [i \in 1..20 |->
        [id |-> i, name |-> GlyphName[i],
         imagePath |-> "../images/" \o PadStart2(i) \o ".png",
         color |-> GlyphColor(i)]]

\* variant: the tone taken from kinNumber instead of kinNumber - 1
ToneId_fromKin(n) == JsRem(n, 13) + 1

\* const toneId = ((kinNumber - 1) % 13) + 1
ToneId(n) == JsRem(n - 1, 13) + 1

\* const glyphId = ((kinNumber - 1) % 20) + 1
GlyphId(n) == JsRem(n - 1, 20) + 1

\* the TypeError of reading .name of undefined
TypeError == [name |-> "TypeError", message |-> "Cannot read properties of undefined"]

\* getKinData on the number n
getKinData(n) ==
    LET toneId == ToneId(n)
        toneEntry == ArrayAt(RR_TONE_NAMES, toneId - 1)
        glyphId == GlyphId(n)
        glyphData == ArrayAt(GLYPH_NAMES, glyphId - 1)
        messages == getKinMessage(Num(n))
    IN IF toneEntry = Undefined THEN Thrown(TypeError)
       ELSE IF glyphData = Undefined THEN Thrown(TypeError)
       ELSE Returned([kinNumber |-> n,
                      toneId |-> toneId,
                      toneName |-> toneEntry.name,
                      glyphId |-> glyphId,
                      glyphName |-> glyphData.name,
                      glyphData |-> glyphData,
                      fullName |-> toneEntry.name \o "De" \o glyphData.name,
                      messages |-> messages])

\* the values tried as arguments
FnNumbers == (1 - FnMargin)..(260 + FnMargin)
FnArgs ==
    {Num(n) : n \in FnNumbers}
    \cup {NaN, Undefined, Null, Bool(TRUE), Bool(FALSE),
          Str(""), Str("5"), Str("260"), Str("300"), Str("abc")}

NoArg == Undefined
FnIdle == fnArg = NoArg /\ fnResult = NoOutcome

\* the state of RedRoom after its first render
RoomMounted ==
    /\ isSpinning = FALSE
    /\ currentKinNumber = 1
    /\ currentKinData = getKinData(1).value
    /\ history = << >>
    /\ isDrawerOpen = FALSE
    /\ reviewMode = Null
    /\ intervalRef = 0
    /\ timers = {}
    /\ now = 0
    /\ mounted = TRUE

CalcIdle ==
    /\ TablesInit
    /\ year = 0 /\ month = 0 /\ day = 0
    /\ impl = "none"
    /\ pc = "idle"
    /\ kin = 0
    /\ rawSum = 0
    /\ adjusted = FALSE
    /\ outcome = NoOutcome
    /\ console = << >>
    /\ prev = NoPrev

\* one call of getKinMessage or getKinData on an argument drawn from FnArgs
InitFn ==
    /\ CalcIdle
    /\ kinDataKeys \in {KinKeys_full, KinKeys_partial}
    /\ fnArg \in FnArgs
    /\ fnResult = NoOutcome
    /\ RoomMounted

CallGetKinMessage ==
    /\ pc = "idle"
    /\ pc' = "message"
    /\ fnResult' = Returned(getKinMessage(fnArg))
    /\ UNCHANGED <<fnArg, kinDataKeys, roomvars, tables>>
    /\ UNCHANGED <<year, month, day, impl, kin, rawSum, adjusted, outcome, console, prev>>

\* the callers of getKinData pass numbers
CallGetKinData ==
    /\ pc = "idle"
    /\ fnArg.t = "number"
    /\ pc' = "data"
    /\ fnResult' = getKinData(fnArg.v)
    /\ UNCHANGED <<fnArg, kinDataKeys, roomvars, tables>>
    /\ UNCHANGED <<year, month, day, impl, kin, rawSum, adjusted, outcome, console, prev>>

NextFn == CallGetKinMessage \/ CallGetKinData

SpecFn == InitFn /\ [][NextFn]_vars

-----------------------------------------------------------------------------
(* src/RedRoom.jsx: the RedRoom component.  Each event handler runs to its  *)
(* end on the state of the latest render, and the state updates it queued  *)
(* are rendered before the next event is delivered.                        *)

\* the values Math.random() is tried with, as thousandths
RandomDraws == {0, 999}

\* Math.floor(Math.random() * 260) + 1
RandomKin(r) == ((r * 260) \div 1000) + 1

\* toLocaleTimeString with hour and minute only; the clock counts half minutes
TimeString(t) == "00:" \o PadStart2(t \div 2)

\* newRecord of startSpinning
NewRecord ==
    [id |-> now, kinNumber |-> currentKinNumber, timestamp |-> TimeString(now)]

\* variant: the new record is put behind the others
Prepend5_append(rec, h) ==
    LET all == h \o <<rec>>
    IN SubSeq(all, 1, IF Len(all) < 5 THEN Len(all) ELSE 5)

\* [newRecord, ...prev].slice(0, 5)
Prepend5(rec, h) ==
    LET all == <<rec>> \o h
    IN SubSeq(all, 1, IF Len(all) < 5 THEN Len(all) ELSE 5)

\* the id setInterval returns: one that no armed interval has and that
\* intervalRef does not hold
NewTimerId ==
    CHOOSE i \in 1..(Cardinality(timers) + 2) : i \notin timers /\ i # intervalRef

\* clearInterval(intervalRef.current)
ClearIntervalRef == timers \ {intervalRef}

\* startSpinning, branch  if (isSpinning): the click stops the spin
StopSpin ==
    /\ mounted
    /\ isSpinning
    /\ timers' = ClearIntervalRef
    /\ isSpinning' = FALSE
    /\ history' = Prepend5(NewRecord, history)
    /\ reviewMode' = Null
    /\ UNCHANGED <<currentKinNumber, currentKinData, isDrawerOpen, intervalRef, now, mounted>>

\* startSpinning, branch  else: the click starts a spin
StartSpin ==
    /\ mounted
    /\ ~isSpinning
    /\ isSpinning' = TRUE
    /\ reviewMode' = Null
    /\ intervalRef' = NewTimerId
    /\ timers' = timers \cup {NewTimerId}
    /\ UNCHANGED <<currentKinNumber, currentKinData, history, isDrawerOpen, now, mounted>>

\* a click on the card
startSpinning ==
    /\ StopSpin \/ StartSpin
    /\ UNCHANGED <<tables, kinDataKeys, fnvars>>
    /\ UNCHANGED <<year, month, day, impl, pc, kin, rawSum, adjusted, outcome, console, prev>>

\* the callback given to setInterval, run for an armed interval
IntervalCallback ==
    /\ \E id \in timers : \E r \in RandomDraws :
         LET randomKin == RandomKin(r)
         IN IF mounted
            THEN /\ currentKinNumber' = randomKin
                 /\ currentKinData' = getKinData(randomKin).value
            ELSE UNCHANGED <<currentKinNumber, currentKinData>>
    /\ UNCHANGED <<isSpinning, history, isDrawerOpen, reviewMode, intervalRef, timers, now, mounted>>
    /\ UNCHANGED <<tables, kinDataKeys, fnvars>>
    /\ UNCHANGED <<year, month, day, impl, pc, kin, rawSum, adjusted, outcome, console, prev>>

\* variant: the review leaves a running interval armed
ReviewTimers_kept == timers

\* the intervals armed after handleReviewRecord
ReviewTimers == IF isSpinning THEN ClearIntervalRef ELSE timers

\* a click on a record of the history list
handleReviewRecord ==
    /\ mounted
    /\ \E i \in 1..Len(history) :
         LET record == history[i]
         IN /\ timers' = ReviewTimers
            /\ isSpinning' = FALSE
            /\ currentKinNumber' = record.kinNumber
            /\ currentKinData' = getKinData(record.kinNumber).value
            /\ reviewMode' = record
            /\ isDrawerOpen' = FALSE
    /\ UNCHANGED <<history, intervalRef, now, mounted>>
    /\ UNCHANGED <<tables, kinDataKeys, fnvars>>
    /\ UNCHANGED <<year, month, day, impl, pc, kin, rawSum, adjusted, outcome, console, prev>>

\* a click on the drawer button
ToggleDrawer ==
    /\ mounted
    /\ isDrawerOpen' = ~isDrawerOpen
    /\ UNCHANGED <<isSpinning, currentKinNumber, currentKinData, history,
                   reviewMode, intervalRef, timers, now, mounted>>
    /\ UNCHANGED <<tables, kinDataKeys, fnvars>>
    /\ UNCHANGED <<year, month, day, impl, pc, kin, rawSum, adjusted, outcome, console, prev>>

\* time passes
ClockAdvance ==
    /\ now < MaxNow
    /\ now' = now + 1
    /\ UNCHANGED <<isSpinning, currentKinNumber, currentKinData, history,
                   isDrawerOpen, reviewMode, intervalRef, timers, mounted>>
    /\ UNCHANGED <<tables, kinDataKeys, fnvars>>
    /\ UNCHANGED <<year, month, day, impl, pc, kin, rawSum, adjusted, outcome, console, prev>>

\* the cleanup of the effect, run when the component is unmounted
Unmount ==
    /\ mounted
    /\ mounted' = FALSE
    /\ timers' = IF intervalRef # 0 THEN ClearIntervalRef ELSE timers
    /\ UNCHANGED <<isSpinning, currentKinNumber, currentKinData, history,
                   isDrawerOpen, reviewMode, intervalRef, now>>
    /\ UNCHANGED <<tables, kinDataKeys, fnvars>>
    /\ UNCHANGED <<year, month, day, impl, pc, kin, rawSum, adjusted, outcome, console, prev>>

InitRoom ==
    /\ CalcIdle
    /\ kinDataKeys = KinKeys_full
    /\ FnIdle
    /\ RoomMounted

NextRoom ==
    \/ startSpinning
    \/ IntervalCallback
    \/ handleReviewRecord
    \/ ToggleDrawer
    \/ ClockAdvance
    \/ Unmount

SpecRoom == InitRoom /\ [][NextRoom]_vars

-----------------------------------------------------------------------------
(* One call of calculateKin *)

\* one call of calculateKin on arguments drawn from the contract domain
Init ==
    /\ TablesInit
    /\ year \in Years
    /\ month \in Months
    /\ day \in Days
    /\ impl = "none"
    /\ pc = "ready"
    /\ kin = 0
    /\ rawSum = 0
    /\ adjusted = FALSE
    /\ outcome = NoOutcome
    /\ console = << >>
    /\ prev = NoPrev
    /\ kinDataKeys = KinKeys_full
    /\ FnIdle
    /\ RoomMounted

Next == Call000 \/ Call001

Spec == Init /\ [][Next]_vars

-----------------------------------------------------------------------------
(* Sequences of calls: the module calls calculateKin several times in a row *)

\* every leap year of the tables, a common year and an unknown year
SeqYears == {2016, 2020, 2024, 2028, 2032, 2023, 1899}
SeqMonths == {2, 3}
SeqDays == {1, 28, 29}

\* the record of a finished call
Snapshot ==
    [impl |-> impl, year |-> year, month |-> month, day |-> day,
     rawSum |-> rawSum, outcome |-> outcome, console |-> console]

InitSeq ==
    /\ TablesInit
    /\ year \in SeqYears
    /\ month \in SeqMonths
    /\ day \in SeqDays
    /\ impl = "none"
    /\ pc = "ready"
    /\ kin = 0
    /\ rawSum = 0
    /\ adjusted = FALSE
    /\ outcome = NoOutcome
    /\ console = << >>
    /\ prev = NoPrev
    /\ kinDataKeys = KinKeys_full
    /\ FnIdle
    /\ RoomMounted

\* the caller moves on to its next call; it may keep the result just obtained
NextCall ==
    /\ pc = "returned"
    /\ pc' = "ready"
    /\ year' \in SeqYears
    /\ month' \in SeqMonths
    /\ day' \in SeqDays
    /\ prev' \in {prev, Snapshot}
    /\ impl' = "none"
    /\ kin' = 0
    /\ rawSum' = 0
    /\ adjusted' = FALSE
    /\ outcome' = NoOutcome
    /\ console' = << >>
    /\ UNCHANGED tables
    /\ UNCHANGED <<kinDataKeys, fnvars, roomvars>>

NextSeq == Call000 \/ Call001 \/ NextCall

SpecSeq == InitSeq /\ [][NextSeq]_vars

-----------------------------------------------------------------------------
(* The two normalization loops, statement by statement, entered with an    *)
(* arbitrary integer in kin                                                *)

InitNorm ==
    /\ TablesInit
    /\ year = 0 /\ month = 0 /\ day = 0
    /\ impl = "none"
    /\ pc = "while1"
    /\ rawSum \in (0 - MaxBelow)..MaxRaw
    /\ kin = rawSum
    /\ adjusted = FALSE
    /\ outcome = NoOutcome
    /\ console = << >>
    /\ prev = NoPrev
    /\ kinDataKeys = KinKeys_full
    /\ FnIdle
    /\ RoomMounted

While1Body ==
    /\ pc = "while1"
    /\ While1Cond(kin)
    /\ kin' = kin - 260
    /\ UNCHANGED <<year, month, day, impl, pc, rawSum, adjusted, outcome, console, prev>>
    /\ UNCHANGED tables
    /\ UNCHANGED <<kinDataKeys, fnvars, roomvars>>

While1Exit ==
    /\ pc = "while1"
    /\ ~While1Cond(kin)
    /\ pc' = "while2"
    /\ UNCHANGED <<year, month, day, impl, kin, rawSum, adjusted, outcome, console, prev>>
    /\ UNCHANGED tables
    /\ UNCHANGED <<kinDataKeys, fnvars, roomvars>>

While2Body ==
    /\ pc = "while2"
    /\ While2Cond(kin)
    /\ kin' = kin + 260
    /\ UNCHANGED <<year, month, day, impl, pc, rawSum, adjusted, outcome, console, prev>>
    /\ UNCHANGED tables
    /\ UNCHANGED <<kinDataKeys, fnvars, roomvars>>

While2Exit ==
    /\ pc = "while2"
    /\ ~While2Cond(kin)
    /\ pc' = "derive"
    /\ UNCHANGED <<year, month, day, impl, kin, rawSum, adjusted, outcome, console, prev>>
    /\ UNCHANGED tables
    /\ UNCHANGED <<kinDataKeys, fnvars, roomvars>>

NextNorm == While1Body \/ While1Exit \/ While2Body \/ While2Exit

\* the loops are straight-line synchronous code: a statement that can run, runs
SpecNorm == InitNorm /\ [][NextNorm]_vars /\ WF_vars(NextNorm)

-----------------------------------------------------------------------------
(* Vocabulary of the properties *)

\* the year table the implementation that ran reads
YearTableOf(i) == IF i = "part_001" THEN YEAR_CONSTANTS ELSE yearConstants
MonthTableOf(i) == IF i = "part_001" THEN MONTH_CONSTANTS ELSE monthConstants

\* number of days of month m in year y of the Gregorian calendar
DaysInMonth(y, m) ==
    IF m = 2
    THEN (IF (y % 4 = 0 /\ y % 100 # 0) \/ y % 400 = 0 THEN 29 ELSE 28)
    ELSE IF m \in {4, 6, 9, 11} THEN 30 ELSE 31

ValidDate(y, m, d) == m \in 1..12 /\ d \in 1..DaysInMonth(y, m)

\* mathematical wrap of an integer into 1..260
Wrap260(r) == ((r - 1) % 260) + 1

IsNormal(o) ==
    /\ ~o.threw
    /\ Get(o.value, "isHunabKu") = Bool(FALSE)
    /\ Get(o.value, "kin").t = "number"

IsSentinel(o) ==
    /\ ~o.threw
    /\ Get(o.value, "isHunabKu") = Bool(TRUE)
    /\ Get(o.value, "displayText") = Str("Hunab Ku")
    /\ Get(o.value, "kin") = Null
    /\ Get(o.value, "seal") = Null
    /\ Get(o.value, "tone") = Null

-----------------------------------------------------------------------------
(* Two calls in a row: the caller asks for a date and then for the day     *)
(* after it, or for the same date again                                    *)

\* the day after (y, m, d) in the Gregorian calendar
NextDate(y, m, d) ==
    IF d < DaysInMonth(y, m) THEN <<y, m, d + 1>>
    ELSE IF m < 12 THEN <<y, m + 1, 1>>
    ELSE <<y + 1, 1, 1>>

\* the caller keeps the result and asks for the following day
NextDay ==
    /\ pc = "returned"
    /\ prev = NoPrev
    /\ ValidDate(year, month, day)
    /\ pc' = "ready"
    /\ year' = NextDate(year, month, day)[1]
    /\ month' = NextDate(year, month, day)[2]
    /\ day' = NextDate(year, month, day)[3]
    /\ prev' = Snapshot
    /\ impl' = "none"
    /\ kin' = 0
    /\ rawSum' = 0
    /\ adjusted' = FALSE
    /\ outcome' = NoOutcome
    /\ console' = << >>
    /\ UNCHANGED tables
    /\ UNCHANGED <<kinDataKeys, fnvars, roomvars>>

\* the caller keeps the result and asks for the same date again
Again ==
    /\ pc = "returned"
    /\ prev = NoPrev
    /\ pc' = "ready"
    /\ prev' = Snapshot
    /\ impl' = "none"
    /\ kin' = 0
    /\ rawSum' = 0
    /\ adjusted' = FALSE
    /\ outcome' = NoOutcome
    /\ console' = << >>
    /\ UNCHANGED <<year, month, day>>
    /\ UNCHANGED tables
    /\ UNCHANGED <<kinDataKeys, fnvars, roomvars>>

NextPair == Call000 \/ Call001 \/ NextDay \/ Again

SpecPair == Init /\ [][NextPair]_vars

-----------------------------------------------------------------------------
(* Properties *)

\* C1: for a year of the year table, a month in 1..12 and a calendar-valid
\* day other than February 29, calculateKin returns a normal result
\* (isHunabKu = false) whose kin is an integer in [1, 260].
C1_KinInRange ==
    (/\ pc = "returned"
     /\ year \in DOMAIN YearTableOf(impl)
     /\ ValidDate(year, month, day)
     /\ ~(month = 2 /\ day = 29))
    => (/\ IsNormal(outcome)
        /\ Get(outcome.value, "kin").v \in 1..260)

\* a raw sum of exactly 260 (62 + 181 + 17) on a valid date of a supported year
C1_Witness ==
    /\ pc = "returned"
    /\ impl = "part_000"
    /\ year = 2014 /\ month = 7 /\ day = 17
    /\ rawSum = 260
    /\ Get(outcome.value, "kin") = Num(260)

\* C2: for every year, in the table or not, leap or not, calculateKin(year, 2, 29)
\* returns the Hunab Ku sentinel (isHunabKu = true, displayText "Hunab Ku",
\* kin, seal and tone null): never the unsupported-year outcome, never a number.
C2_Feb29Sentinel ==
    (pc = "returned" /\ month = 2 /\ day = 29) => IsSentinel(outcome)

\* February 29 of a year that is neither in the table nor a leap year
C2_Witness ==
    /\ pc = "returned"
    /\ impl = "part_000"
    /\ year = 1899 /\ month = 2 /\ day = 29
    /\ outcome = Returned(HunabKu0)

\* C3: for a year without entry in the year table and a date other than
\* February 29, part_000 throws an Error and part_001 returns a record with
\* kin, seal and tone null and isHunabKu false; neither is a normal result or
\* the sentinel. A year that is in the table is never reported as unsupported.
C3_UnsupportedYear ==
    (pc = "returned" /\ ~(month = 2 /\ day = 29))
    => IF year \notin DOMAIN YearTableOf(impl)
       THEN /\ ~IsNormal(outcome)
            /\ ~IsSentinel(outcome)
            /\ impl = "part_000" => (outcome.threw /\ outcome.error.name = "Error")
            /\ impl = "part_001" =>
                 (/\ ~outcome.threw
                  /\ Get(outcome.value, "kin") = Null
                  /\ Get(outcome.value, "seal") = Null
                  /\ Get(outcome.value, "tone") = Null
                  /\ Get(outcome.value, "isHunabKu") = Bool(FALSE))
       ELSE IsNormal(outcome)

\* the year 2031 is known to part_001 only: part_000 throws for it
C3_Witness ==
    /\ pc = "returned"
    /\ impl = "part_000"
    /\ year = 2031 /\ month = 1 /\ day = 1
    /\ outcome.threw

\* C4: for a supported year and a date other than February 29 the returned kin
\* is the wrap into [1, 260] of  yearOffset + monthOffset + day + adj,  where
\* adj = 1 exactly for a Gregorian leap year and a date after February 28.
C4_KinFormula ==
    (/\ pc = "returned"
     /\ year \in DOMAIN YearTableOf(impl)
     /\ ~(month = 2 /\ day = 29))
    => LET leap == (year % 4 = 0 /\ year % 100 # 0) \/ year % 400 = 0
           after == month > 2 \/ (month = 2 /\ day > 28)
           adj == IF leap /\ after THEN 1 ELSE 0
           raw == YearTableOf(impl)[year] + MonthTableOf(impl)[month] + day + adj
       IN /\ IsNormal(outcome)
          /\ Get(outcome.value, "kin") = Num(Wrap260(raw))

\* September 30 of the leap year 2028: 232 + 243 + 30 + 1 = 506, kin 246
C4_Witness ==
    /\ pc = "returned"
    /\ impl = "part_001"
    /\ year = 2028 /\ month = 9 /\ day = 30
    /\ adjusted
    /\ rawSum = 506
    /\ Get(outcome.value, "kin") = Num(246)

\* C5: the two normalization loops terminate for every integer raw sum and
\* leave kin = ((raw - 1) mod 260) + 1 with a non-negative modulo: 260 stays
\* 260, 261 becomes 1, sums below 1 wrap upward into [1, 260].
C5_Normalization ==
    /\ [](pc = "derive" => (kin = Wrap260(rawSum) /\ kin \in 1..260))
    /\ [](pc = "derive" /\ rawSum = 260 => kin = 260)
    /\ [](pc = "derive" /\ rawSum = 261 => kin = 1)
    /\ <>(pc = "derive")

\* a raw sum below 1 that the second loop lifted
C5_Witness ==
    /\ pc = "derive"
    /\ rawSum = 0
    /\ kin = 260

\* the seal and tone tables the implementation that ran reads
SealTableOf(i) == IF i = "part_001" THEN SEAL_NAMES ELSE sealNames
ToneTableOf(i) == IF i = "part_001" THEN TONE_NAMES ELSE toneNames

\* C6: in every normal result the naming fields are functions of kin alone:
\* seal = sealNames[(kin - 1) mod 20], tone = toneNames[(kin - 1) mod 13],
\* sealNumber = ((kin - 1) mod 20) + 1 in [1, 20], displayText = tone then seal.
C6_NamesFromKin ==
    (pc = "returned" /\ IsNormal(outcome))
    => LET k == Get(outcome.value, "kin").v
           si == (k - 1) % 20
           ti == (k - 1) % 13
       IN /\ si \in 0..19
          /\ ti \in 0..12
          /\ Get(outcome.value, "seal") = Str(SealTableOf(impl)[si + 1])
          /\ Get(outcome.value, "tone") = Str(ToneTableOf(impl)[ti + 1])
          /\ Get(outcome.value, "sealNumber") = Num(si + 1)
          /\ si + 1 \in 1..20
          /\ Get(outcome.value, "displayText")
               = Str(ToneTableOf(impl)[ti + 1] \o SealTableOf(impl)[si + 1])

\* kin 260: the last seal and the last tone
C6_Witness ==
    /\ pc = "returned"
    /\ IsNormal(outcome)
    /\ Get(outcome.value, "kin") = Num(260)
    /\ Get(outcome.value, "sealNumber") = Num(20)
    /\ Get(outcome.value, "displayText") = Str("YuZhouDeHuangTaiYang")

\* C7: for every leap year of the year table, the kin of March 1 minus the kin
\* of February 28 is congruent to 2 modulo 260 (2024: raw sums 131 and 133).
C7_LeapBoundary ==
    (/\ pc = "returned"
     /\ prev.impl = impl
     /\ prev.year = year
     /\ year \in DOMAIN YearTableOf(impl)
     /\ ((year % 4 = 0 /\ year % 100 # 0) \/ year % 400 = 0)
     /\ prev.month = 2 /\ prev.day = 28
     /\ month = 3 /\ day = 1)
    => /\ IsNormal(outcome)
       /\ IsNormal(prev.outcome)
       /\ (Get(outcome.value, "kin").v - Get(prev.outcome.value, "kin").v) % 260 = 2
       /\ year = 2024 => (prev.rawSum = 131 /\ rawSum = 133)

\* February 28 and March 1 of 2024, both computed by part_000
C7_Witness ==
    /\ pc = "returned"
    /\ impl = "part_000"
    /\ prev.impl = "part_000"
    /\ year = 2024 /\ month = 3 /\ day = 1
    /\ prev.year = 2024 /\ prev.month = 2 /\ prev.day = 28
    /\ Get(prev.outcome.value, "kin") = Num(131)
    /\ Get(outcome.value, "kin") = Num(133)

\* C8: calculateKin(2026, 1, 6) returns kin 28 (22 + 0 + 6, no leap
\* adjustment), seal 黃星星 (sealNumber 8), tone 月亮的, displayText
\* 月亮的黃星星 and isHunabKu false.
C8_Example ==
    (pc = "returned" /\ year = 2026 /\ month = 1 /\ day = 6)
    => /\ ~outcome.threw
       /\ rawSum = 28
       /\ ~adjusted
       /\ Get(outcome.value, "kin") = Num(28)
       /\ Get(outcome.value, "seal") = Str("HuangXingXing")
       /\ Get(outcome.value, "sealNumber") = Num(8)
       /\ Get(outcome.value, "tone") = Str("YueLiangDe")
       /\ Get(outcome.value, "displayText") = Str("YueLiangDeHuangXingXing")
       /\ Get(outcome.value, "isHunabKu") = Bool(FALSE)

\* the call the module itself makes on its test date
C8_Witness ==
    /\ pc = "returned"
    /\ impl = "part_000"
    /\ year = 2026 /\ month = 1 /\ day = 6
    /\ outcome = Returned(NormalResult0(sealNames_init, toneNames_init, 28))

\* C9 as stated: over supported year, month in 1..12, day in 1..31, the
\* leap-year adjustment is applied only to calls with month > 2.
C9_AdjustOnlyAfterFebruary ==
    (pc = "returned" /\ adjusted) => month > 2

\* C9 amended: a call with month = 2 receives the adjustment only for day 30
\* or 31 (no calendar dates); for day <= 29 the adjustment is applied only
\* with month > 2, because February 29 is intercepted first.
C9_AdjustAfterFeb29 ==
    /\ (pc = "returned" /\ adjusted) => (month > 2 \/ (month = 2 /\ day \in {30, 31}))
    /\ (pc = "returned" /\ month = 2 /\ day \in {30, 31}
          /\ year \in DOMAIN YearTableOf(impl) /\ isLeapYear(year)) => adjusted

\* February 30 of the leap year 2024 receives the adjustment: 72 + 31 + 30 + 1
C9_Witness ==
    /\ pc = "returned"
    /\ year = 2024 /\ month = 2 /\ day = 30
    /\ adjusted
    /\ rawSum = 134

\* C10: two calls of the same implementation with the same arguments, with
\* any other calls in between, give the same outcome: the same returned
\* fields or the same failure.
C10_Deterministic ==
    (/\ pc = "returned"
     /\ prev.impl = impl
     /\ prev.year = year /\ prev.month = month /\ prev.day = day)
    => /\ prev.outcome = outcome
       /\ prev.console = console
       /\ prev.rawSum = rawSum

\* the same normal call made twice by part_000
C10_Witness ==
    /\ pc = "returned"
    /\ impl = "part_000"
    /\ prev.impl = "part_000"
    /\ year = 2024 /\ month = 3 /\ day = 1
    /\ prev.year = 2024 /\ prev.month = 3 /\ prev.day = 1
    /\ Get(outcome.value, "kin") = Num(133)

\* C11: every call of calculateKin, whatever its outcome (normal result,
\* sentinel or unsupported year), leaves the month table, the year table,
\* the seal list and the tone list unchanged.
C11_TablesUnchanged ==
    [][pc' = "returned" =>
         (/\ tables' = tables
          /\ monthConstants' = monthConstants_init
          /\ yearConstants' = yearConstants_init
          /\ sealNames' = sealNames_init
          /\ toneNames' = toneNames_init
          /\ MONTH_CONSTANTS' = MONTH_CONSTANTS_init
          /\ YEAR_CONSTANTS' = YEAR_CONSTANTS_init
          /\ SEAL_NAMES' = SEAL_NAMES_init
          /\ TONE_NAMES' = TONE_NAMES_init)]_vars

\* a second call of part_000 has returned normally and the tables are as loaded
C11_Witness ==
    /\ pc = "returned"
    /\ impl = "part_000"
    /\ prev.impl = "part_000"
    /\ IsNormal(outcome)
    /\ yearConstants = yearConstants_init

\* C12: when the year is absent from the year table, calculateKin surfaces
\* the failure to its caller and writes no log output of its own.
C12_NoLogOnUnsupportedYear ==
    (/\ pc = "returned"
     /\ ~(month = 2 /\ day = 29)
     /\ year \notin DOMAIN YearTableOf(impl))
    => (/\ ~IsNormal(outcome)
        /\ ~IsSentinel(outcome)
        /\ console = << >>)

\* C13: for consecutive supported years y and y + 1 the kin of January 1 of
\* y + 1 is congruent to the kin of December 31 of y plus 1, modulo 260.
C13_NewYearContinuity ==
    (/\ pc = "returned"
     /\ prev.impl = impl
     /\ prev.month = 12 /\ prev.day = 31
     /\ year = prev.year + 1 /\ month = 1 /\ day = 1
     /\ prev.year \in DOMAIN YearTableOf(impl)
     /\ year \in DOMAIN YearTableOf(impl))
    => /\ IsNormal(outcome)
       /\ IsNormal(prev.outcome)
       /\ (Get(outcome.value, "kin").v
             - (Get(prev.outcome.value, "kin").v + 1)) % 260 = 0

\* days of the months before month m in a year that is no leap year
RECURSIVE DaysBefore(_)
DaysBefore(m) == IF m = 1 THEN 0 ELSE DaysBefore(m - 1) + DaysInMonth(2023, m - 1)

\* C14: within one supported year, for consecutive calendar-valid dates of
\* which neither is February 29, the kin of the later date is congruent to
\* the kin of the earlier date plus 1 modulo 260; the month offsets are the
\* day counts of the preceding months of a common year, modulo 260.
C14_DayByDay ==
    /\ (/\ pc = "returned"
        /\ prev.impl = impl
        /\ prev.year = year
        /\ year \in DOMAIN YearTableOf(impl)
        /\ ValidDate(prev.year, prev.month, prev.day)
        /\ <<year, month, day>> = NextDate(prev.year, prev.month, prev.day)
        /\ ~(prev.month = 2 /\ prev.day = 29)
        /\ ~(month = 2 /\ day = 29))
       => (/\ IsNormal(outcome)
           /\ IsNormal(prev.outcome)
           /\ (Get(outcome.value, "kin").v
                 - (Get(prev.outcome.value, "kin").v + 1)) % 260 = 0)
    /\ \A m \in 1..12 : /\ monthConstants[m] = DaysBefore(m) % 260
                        /\ MONTH_CONSTANTS[m] = DaysBefore(m) % 260

\* September 30 and October 1 of 2014, where the month offset wraps (243 -> 13)
C14_Witness ==
    /\ pc = "returned"
    /\ impl = "part_001"
    /\ prev.impl = "part_001"
    /\ prev.year = 2014 /\ prev.month = 9 /\ prev.day = 30
    /\ year = 2014 /\ month = 10 /\ day = 1
    /\ Get(prev.outcome.value, "kin") = Num(75)
    /\ Get(outcome.value, "kin") = Num(76)

\* the fields the two implementations have in common
SameFields(a, b) ==
    \A f \in {"kin", "seal", "tone", "sealNumber", "isHunabKu", "displayText"} :
        Get(a, f) = Get(b, f)

\* C15: part_000 and part_001 return the same kin, seal, tone, sealNumber,
\* isHunabKu and displayText for every year in 2014..2030, month in 1..12
\* and day in 1..31; they differ only for years absent from a table
\* (part_000 throws, part_001 returns a placeholder) and for 2031..2035,
\* which only part_001 supports.
C15_SameResults ==
    (/\ pc = "returned"
     /\ prev.impl = "part_000"
     /\ impl = "part_001"
     /\ prev.year = year /\ prev.month = month /\ prev.day = day)
    => IF year \in 2014..2030 \/ (month = 2 /\ day = 29)
       THEN /\ ~prev.outcome.threw
            /\ ~outcome.threw
            /\ SameFields(prev.outcome.value, outcome.value)
       ELSE /\ prev.outcome.threw
            /\ ~outcome.threw
            /\ IF year \in 2031..2035
               THEN IsNormal(outcome)
               ELSE outcome = Returned(YearUndefined1)

\* March 1 of the leap year 2020 computed by part_000, then by part_001
C15_Witness ==
    /\ pc = "returned"
    /\ prev.impl = "part_000"
    /\ impl = "part_001"
    /\ year = 2020 /\ month = 3 /\ day = 1
    /\ prev.year = 2020 /\ prev.month = 3 /\ prev.day = 1
    /\ Get(prev.outcome.value, "kin") = Num(233)
    /\ Get(outcome.value, "kin") = Num(233)

\* the entries of a 0-based array
Entries(arr) == {arr[i] : i \in DOMAIN arr}

\* C16: for every kinNumber in 1..260 getKinData returns
\* toneId = ((kinNumber - 1) mod 13) + 1 in 1..13 and
\* glyphId = ((kinNumber - 1) mod 20) + 1 in 1..20, toneName and glyphData
\* from the entries whose id is toneId and glyphId, and
\* fullName = toneName + "的" + glyphName; no lookup is out of bounds.
C16_KinData ==
    (pc = "data" /\ fnArg.v \in 1..260)
    => /\ ~fnResult.threw
       /\ LET r == fnResult.value
              n == fnArg.v
          IN /\ r.kinNumber = n
             /\ r.toneId = ((n - 1) % 13) + 1
             /\ r.toneId \in 1..13
             /\ r.glyphId = ((n - 1) % 20) + 1
             /\ r.glyphId \in 1..20
             /\ \E e \in Entries(RR_TONE_NAMES) : e.id = r.toneId /\ e.name = r.toneName
             /\ r.glyphData \in Entries(GLYPH_NAMES)
             /\ r.glyphData.id = r.glyphId
             /\ r.glyphName = r.glyphData.name
             /\ r.fullName = r.toneName \o "De" \o r.glyphName

\* kin 260: the thirteenth tone and the twentieth glyph
C16_Witness ==
    /\ pc = "data"
    /\ fnArg = Num(260)
    /\ ~fnResult.threw
    /\ fnResult.value.toneId = 13
    /\ fnResult.value.glyphId = 20
    /\ fnResult.value.fullName = "YuZhouDeHuangTaiYang"

MessageFields == {"synchronicMessage", "highFrequency", "lowFrequency", "alignment"}

NewestFirst(h) ==
    \A i \in 1..Len(h) : \A j \in 1..Len(h) : i < j => h[i].id >= h[j].id

\* a step of startSpinning that stops a spin
IsStop == mounted /\ isSpinning /\ ~isSpinning' /\ reviewMode' = Null

\* C18: after any sequence of card clicks, record clicks and timer ticks the
\* history holds at most 5 records, newest first; a card click that stops a
\* spin prepends exactly one record with the kin number on display and drops
\* the oldest beyond 5; no other step changes the history.
C18_History ==
    /\ [](Len(history) <= 5 /\ NewestFirst(history))
    /\ [][IF IsStop
          THEN /\ Len(history') = (IF Len(history) < 5 THEN Len(history) + 1 ELSE 5)
               /\ history'[1].kinNumber = currentKinNumber
               /\ history'[1].id = now
               /\ \A i \in 2..Len(history') : history'[i] = history[i - 1]
          ELSE history' = history]_vars

\* five records, the newest made later than the oldest, after a sixth stop
\* would have dropped the first one
C18_Witness ==
    /\ Len(history) = 5
    /\ history[1].id > history[5].id
    /\ history[1].kinNumber = 260
    /\ history[5].kinNumber = 1
    /\ ~isSpinning
    /\ currentKinNumber = 260

====
